---- MODULE Spec2Model ----
(***************************************************************************)
(* Model of the DRA example controller's allocation engine:                *)
(*   driver.allocate / driver.Deallocate / driver.UnsuitableNodes          *)
(*   gpudriver.Allocate / Deallocate / UnsuitableNode / allocate           *)
(*   nasclient.Client.Get / Update                                         *)
(* Every handler is a process that moves through the points where it       *)
(* touches shared state: the per-node mutex, the NodeAllocationState       *)
(* object in the API server and the PendingAllocatedClaims cache.          *)
(***************************************************************************)
EXTENDS Integers, Sequences, FiniteSets, TLC

\* ---- bounds of the model ----
NumProcs == 2
NumNodes == 2
NumClaims == 2
NumDevices == 2
MaxCalls == 3
MaxEarlier == 1

Procs == 1..NumProcs
Nodes == 1..NumNodes
Claims == 1..NumClaims

\* selectedNode == "" : no node was selected for the claim
NoNode == 0
\* a sync.Mutex nobody holds
NoProc == 0

\* nascrd.NodeAllocationStateStatusReady and its counterpart
StatusReady == "Ready"
StatusNotReady == "NotReady"

\* The zero value AllocatedDevices{} (Gpu == nil): what Get hands back for an
\* entry that is not in the cache.
EmptyAllocatedDevices == <<>>

\* crd.Spec.AllocatableDevices of node n: node n owns NumDevices + n - 1 GPUs,
\* with UUIDs no other node has.
Inventory(n) == {n * 10 + i : i \in 1..(NumDevices + n - 1)}

\* GpuClaimParametersSpec.Count of claim c, a validated count (>= 1).
Count(c) == c

VARIABLES
    record,     \* the NodeAllocationState objects in the API server, by node
    pending,    \* gpudriver.PendingAllocatedClaims: <<claimUID, node>> -> devices
    nodeLock,   \* PerNodeMutex: the holder of each node's mutex
    cacheLock,  \* the internal lock of PendingAllocatedClaims
    pc,         \* position of each invocation in its handler
    call,       \* arguments of each invocation
    crd,        \* the invocation's working copy of the NodeAllocationState
    ev,         \* locals of UnsuitableNodes: allocated, loop index, ca.UnsuitableNodes
    ret,        \* what the invocation returns
    hist,       \* what the invocation has done so far (history of the call)
    calls       \* number of driver.allocate, driver.Deallocate and
                \* driver.unsuitableNode invocations asked for so far

vars == <<record, pending, nodeLock, cacheLock, pc, call, crd, ev, ret, hist, calls>>

\* ---- Go maps and slices ----
Range(s) == {s[i] : i \in DOMAIN s}

MapPut(f, k, v) == [x \in (DOMAIN f) \cup {k} |-> IF x = k THEN v ELSE f[x]]

MapDelete(f, k) == [x \in (DOMAIN f) \ {k} |-> f[x]]

EmptyMap == [x \in {} |-> <<>>]

\* all orders in which the elements of S can be listed
RECURSIVE Orders(_)
Orders(S) ==
    IF S = {} THEN {<<>>}
    ELSE UNION {{<<x>> \o t : t \in Orders(S \ {x})} : x \in S}

\* the argument lists of one call: non-empty lists without repetition
Lists(S) == UNION {Orders(T) : T \in (SUBSET S) \ {{}}}

\* unique(s): the first occurrence of every string, in order
RECURSIVE unique(_)
unique(s) ==
    IF s = <<>> THEN <<>>
    ELSE LET front == unique(SubSeq(s, 1, Len(s) - 1))
             last == s[Len(s)]
         IN IF last \in Range(front) THEN front ELSE Append(front, last)

\* ---- PendingAllocatedClaims (the cache) ----
Exists(claimUID, node) == <<claimUID, node>> \in DOMAIN pending

Get(claimUID, node) ==
    IF Exists(claimUID, node) THEN pending[<<claimUID, node>>]
    ELSE EmptyAllocatedDevices

\* Set overwrites any prior entry of the claim, whatever node it was on
Set(claimUID, node, devices) ==
    [k \in {q \in DOMAIN pending : q[1] # claimUID} \cup {<<claimUID, node>>} |->
        IF k = <<claimUID, node>> THEN devices ELSE pending[k]]

Remove(claimUID) ==
    [k \in {q \in DOMAIN pending : q[1] # claimUID} |-> pending[k]]

\* the claims VisitNode calls the visitor for
NodeEntries(node) == {c \in Claims : Exists(c, node)}

\* ---- results of a call ----
\* buildAllocationResult(selectedNode, shareable), returned with a nil error
buildAllocationResult(selectedNode, shareable) ==
    [err |-> "nil", node |-> selectedNode, shareable |-> shareable]

\* a nil result returned with the error e
Failure(e) == [err |-> e, node |-> NoNode, shareable |-> FALSE]

\* a nil error without a result (Deallocate, UnsuitableNodes)
Success == [err |-> "nil", node |-> NoNode, shareable |-> FALSE]

NoResult == [err |-> "", node |-> NoNode, shareable |-> FALSE]

\* ---- initial state ----
IdleCall == [op |-> "none", node |-> NoNode, claim |-> 0, cas |-> <<>>, nodes |-> <<>>]

IdleCrd == [status |-> "", allocatableDevices |-> {}, allocatedClaims |-> EmptyMap]

IdleEv == [allocated |-> EmptyMap, idx |-> 0, unsuitable |-> EmptyMap, pos |-> 0]

IdleHist ==
    [locked |-> FALSE,    \* the call has taken a node mutex
     found |-> FALSE,     \* the fetched object held the claim of the call
     staged |-> <<>>,     \* the cache entry of (claim, node) when Exists looked at it
     writes |-> 0,        \* client.Update calls that succeeded
     sets |-> {},         \* <<claim, node>> of the Set calls made
     removes |-> {},      \* claims of the Remove calls made
     pre |-> {},          \* <<claim, node>> in the cache when the node's mutex was taken
     skipped |-> {},      \* nodes given up at the fetch or the status check
     reconciled |-> {},   \* nodes VisitNode ran for
     allocRan |-> {},     \* nodes g.allocate ran for
     shortfall |-> {}]    \* nodes given up at the count check

\* ---- gpudriver.allocate (the device allocator) ----
\* the UUIDs bound by the entries of an AllocatedClaims map
AllocatedUUIDs(allocatedClaims) ==
    UNION {Range(allocatedClaims[c]) : c \in DOMAIN allocatedClaims}

\* the inner loop running once too often (i <= claimParams.Count)
PicksOneMore(available, count) ==
    LET k == IF count + 1 < Cardinality(available) THEN count + 1 ELSE Cardinality(available)
    IN UNION {Orders(T) : T \in {U \in SUBSET available : Cardinality(U) = k}}

\* what the inner loops can collect for one new claim: count devices of the
\* available map (fewer when it runs out), in the order the map iteration
\* happens to yield them
Picks(available, count) ==
    LET k == IF count < Cardinality(available) THEN count ELSE Cardinality(available)
    IN UNION {Orders(T) : T \in {U \in SUBSET available : Cardinality(U) = k}}

\* the loop over gpucas: every map `allocated` the loop can end with
RECURSIVE allocateLoop(_, _, _, _)
allocateLoop(gpucas, available, allocatedClaims, allocated) ==
    IF gpucas = <<>> THEN {allocated}
    ELSE LET claimUID == Head(gpucas) IN
         IF claimUID \in DOMAIN allocatedClaims
         THEN allocateLoop(Tail(gpucas), available, allocatedClaims,
                           MapPut(allocated, claimUID, allocatedClaims[claimUID]))
         ELSE UNION {allocateLoop(Tail(gpucas), available \ Range(devices), allocatedClaims,
                                  MapPut(allocated, claimUID, devices)) :
                        devices \in Picks(available, Count(claimUID))}

\* allocate without the branch for a claim that is already in
\* crd.Spec.AllocatedClaims (lines 134-140): every claim is served from available
allocateIgnoresExisting(crdv, gpucas) ==
    allocateLoop(gpucas,
                 crdv.allocatableDevices \ AllocatedUUIDs(crdv.allocatedClaims),
                 EmptyMap, EmptyMap)

\* allocate without the loop over crd.Spec.AllocatedClaims (lines 120-129): the
\* devices of the allocated claims stay available
allocateKeepsAllocated(crdv, gpucas) ==
    allocateLoop(gpucas, crdv.allocatableDevices, crdv.allocatedClaims, EmptyMap)

allocate(crdv, gpucas) ==
    allocateLoop(gpucas,
                 crdv.allocatableDevices \ AllocatedUUIDs(crdv.allocatedClaims),
                 crdv.allocatedClaims, EmptyMap)

\* crd.Spec.AllocatedClaims[claimUID].Gpu.Devices with Gpu == nil: the loop
\* dereferences a nil pointer
allocatePanics(crdv, gpucas) ==
    \E c \in Range(gpucas) :
        /\ c \in DOMAIN crdv.allocatedClaims
        /\ crdv.allocatedClaims[c] = EmptyAllocatedDevices

\* The API server keeps the NodeAllocationState objects across restarts of the
\* controller, the cache starts empty (NewPerNodeAllocatedClaims). An object can
\* hold the claims an earlier run allocated on its node: home[c] is that node.
SortedList(S) == CHOOSE s \in Orders(S) : \A i, j \in DOMAIN s : i < j => s[i] < s[j]

Fulfilled(allocated) == \A c \in DOMAIN allocated : Len(allocated[c]) = Count(c)

EmptyRecord(n, status) ==
    [status |-> status, allocatableDevices |-> Inventory(n), allocatedClaims |-> EmptyMap]

EarlierClaims(n, home) ==
    allocate(EmptyRecord(n, StatusReady), SortedList({c \in Claims : home[c] = n}))

Init ==
    /\ \E last \in {StatusReady, StatusNotReady}, home \in [Claims -> Nodes \cup {NoNode}] :
         /\ \A c \in Claims : home[c] = NumNodes => last = StatusReady
         /\ Cardinality({c \in Claims : home[c] # NoNode}) <= MaxEarlier
         /\ calls = Cardinality({c \in Claims : home[c] # NoNode})
         /\ \A n \in Nodes : \E a \in EarlierClaims(n, home) : Fulfilled(a)
         /\ record = [n \in Nodes |->
                [EmptyRecord(n, IF n = NumNodes THEN last ELSE StatusReady)
                    EXCEPT !.allocatedClaims = CHOOSE a \in EarlierClaims(n, home) : Fulfilled(a)]]
    /\ pending = EmptyMap
    /\ nodeLock = [n \in Nodes |-> NoProc]
    /\ cacheLock = NoProc
    /\ pc = [p \in Procs |-> "idle"]
    /\ call = [p \in Procs |-> IdleCall]
    /\ crd = [p \in Procs |-> IdleCrd]
    /\ ev = [p \in Procs |-> IdleEv]
    /\ ret = [p \in Procs |-> NoResult]
    /\ hist = [p \in Procs |-> IdleHist]

\* ---- bookkeeping shared by the handlers ----
Node(p) == call[p].node

Claim(p) == call[p].claim

\* a panic ends the whole process
Crashed == \E q \in Procs : pc[q] = "panic"

\* the goroutine p can take a new call: the workers are interchangeable, a call
\* goes to the first one that is free
Idle(p) ==
    /\ pc[p] = "idle"
    /\ \A q \in Procs : q < p => pc[q] # "idle"
    /\ ~Crashed
    /\ calls < MaxCalls

At(p, op, where) == pc[p] = where /\ call[p].op = op /\ ~Crashed

\* d.lock.Get(node).Lock(): blocks until the node's mutex is free
Lock(p) ==
    /\ nodeLock[Node(p)] = NoProc
    /\ nodeLock' = [nodeLock EXCEPT ![Node(p)] = p]

\* the deferred d.lock.Get(node).Unlock()
Unlock(p) == nodeLock' = [nodeLock EXCEPT ![Node(p)] = NoProc]

\* the history of a call that has just taken the node's mutex
Locked(h, node) ==
    [h EXCEPT !.locked = TRUE, !.pre = @ \cup {<<c, node>> : c \in NodeEntries(node)}]

\* client.Update(ctx, &crd.Spec): the stored object is replaced as a whole
ClientUpdate(node, crdv) == record' = [record EXCEPT ![node] = crdv]

\* ---- driver.allocate (Commit) ----
StartAllocate(p, selectedNode, claim) ==
    /\ Idle(p)
    /\ calls' = calls + 1
    /\ call' = [call EXCEPT ![p] = [IdleCall EXCEPT !.op = "Allocate", !.node = selectedNode, !.claim = claim]]
    /\ IF selectedNode = NoNode
       THEN /\ ret' = [ret EXCEPT ![p] = Failure("errNoNode")]
            /\ pc' = [pc EXCEPT ![p] = "done"]
       ELSE /\ ret' = ret
            /\ pc' = [pc EXCEPT ![p] = "lock"]
    /\ UNCHANGED <<record, pending, nodeLock, cacheLock, crd, ev, hist>>

\* driver.allocate without the check for a claim that is already allocated
\* (lines 135-137)
AllocateGetNoRepeatCheck(p) ==
    /\ At(p, "Allocate", "lock")
    /\ nodeLock[Node(p)] = NoProc
    /\ \E ok \in BOOLEAN :
        IF ~ok
        THEN /\ ret' = [ret EXCEPT ![p] = Failure("errGet")]
             /\ pc' = [pc EXCEPT ![p] = "done"]
             /\ hist' = [hist EXCEPT ![p] = Locked(@, Node(p))]
             /\ UNCHANGED <<crd, nodeLock>>
        ELSE /\ crd' = [crd EXCEPT ![p] = record[Node(p)]]
             /\ hist' = [hist EXCEPT ![p] = [Locked(@, Node(p)) EXCEPT !.found =
                                Claim(p) \in DOMAIN record[Node(p)].allocatedClaims]]
             /\ IF record[Node(p)].status # StatusReady
                THEN /\ ret' = [ret EXCEPT ![p] = Failure("errNotReady")]
                     /\ pc' = [pc EXCEPT ![p] = "done"]
                     /\ nodeLock' = nodeLock
                ELSE /\ ret' = ret
                     /\ pc' = [pc EXCEPT ![p] = "exists"]
                     /\ Lock(p)
    /\ UNCHANGED <<record, pending, cacheLock, call, ev, calls>>

\* Lock, client.Get, the status check and the check for a claim that is
\* already allocated; a return runs the deferred Unlock
AllocateGet(p) ==
    /\ At(p, "Allocate", "lock")
    /\ nodeLock[Node(p)] = NoProc
    /\ \E ok \in BOOLEAN :
        IF ~ok
        THEN /\ ret' = [ret EXCEPT ![p] = Failure("errGet")]
             /\ pc' = [pc EXCEPT ![p] = "done"]
             /\ hist' = [hist EXCEPT ![p] = Locked(@, Node(p))]
             /\ UNCHANGED <<crd, nodeLock>>
        ELSE /\ crd' = [crd EXCEPT ![p] = record[Node(p)]]
             /\ hist' = [hist EXCEPT ![p] = [Locked(@, Node(p)) EXCEPT !.found =
                                Claim(p) \in DOMAIN record[Node(p)].allocatedClaims]]
             /\ IF record[Node(p)].status # StatusReady
                THEN /\ ret' = [ret EXCEPT ![p] = Failure("errNotReady")]
                     /\ pc' = [pc EXCEPT ![p] = "done"]
                     /\ nodeLock' = nodeLock
                ELSE IF Claim(p) \in DOMAIN record[Node(p)].allocatedClaims
                THEN /\ ret' = [ret EXCEPT ![p] = buildAllocationResult(Node(p), TRUE)]
                     /\ pc' = [pc EXCEPT ![p] = "done"]
                     /\ nodeLock' = nodeLock
                ELSE /\ ret' = ret
                     /\ pc' = [pc EXCEPT ![p] = "exists"]
                     /\ Lock(p)
    /\ UNCHANGED <<record, pending, cacheLock, call, ev, calls>>

\* gpudriver.Allocate without the Exists check (lines 50-52)
AllocateExistsUnchecked(p) ==
    /\ At(p, "Allocate", "exists")
    /\ cacheLock = NoProc
    /\ pc' = [pc EXCEPT ![p] = "pget"]
    /\ hist' = [hist EXCEPT ![p].staged = Get(Claim(p), Node(p))]
    /\ UNCHANGED <<record, pending, nodeLock, cacheLock, call, crd, ev, ret, calls>>

\* gpudriver.Allocate, the Exists check
AllocateExists(p) ==
    /\ At(p, "Allocate", "exists")
    /\ cacheLock = NoProc
    /\ IF Exists(Claim(p), Node(p))
       THEN /\ ret' = ret
            /\ pc' = [pc EXCEPT ![p] = "pget"]
            /\ nodeLock' = nodeLock
       ELSE /\ ret' = [ret EXCEPT ![p] = Failure("errNoPending")]
            /\ pc' = [pc EXCEPT ![p] = "done"]
            /\ Unlock(p)
    /\ hist' = [hist EXCEPT ![p].staged = Get(Claim(p), Node(p))]
    /\ UNCHANGED <<record, pending, cacheLock, call, crd, ev, calls>>

\* gpudriver.Allocate storing the assignment in a fresh map instead of
\* crd.Spec.AllocatedClaims
AllocateUpdateFreshMap(p) ==
    /\ At(p, "Allocate", "pget")
    /\ cacheLock = NoProc
    /\ crd' = [crd EXCEPT ![p].allocatedClaims = MapPut(EmptyMap, Claim(p), Get(Claim(p), Node(p)))]
    /\ \E ok \in BOOLEAN :
        IF ok
        THEN /\ ClientUpdate(Node(p), crd'[p])
             /\ hist' = [hist EXCEPT ![p].writes = @ + 1]
             /\ ret' = ret
             /\ pc' = [pc EXCEPT ![p] = "onsuccess"]
             /\ nodeLock' = nodeLock
        ELSE /\ record' = record
             /\ hist' = hist
             /\ ret' = [ret EXCEPT ![p] = Failure("errUpdate")]
             /\ pc' = [pc EXCEPT ![p] = "done"]
             /\ Unlock(p)
    /\ UNCHANGED <<pending, cacheLock, call, ev, calls>>

\* gpudriver.Allocate: crd.Spec.AllocatedClaims[claimUID] = Get(claimUID, selectedNode);
\* then client.Update
AllocateUpdate(p) ==
    /\ At(p, "Allocate", "pget")
    /\ cacheLock = NoProc
    /\ crd' = [crd EXCEPT ![p].allocatedClaims = MapPut(@, Claim(p), Get(Claim(p), Node(p)))]
    /\ \E ok \in BOOLEAN :
        IF ok
        THEN /\ ClientUpdate(Node(p), crd'[p])
             /\ hist' = [hist EXCEPT ![p].writes = @ + 1]
             /\ ret' = ret
             /\ pc' = [pc EXCEPT ![p] = "onsuccess"]
             /\ nodeLock' = nodeLock
        ELSE /\ record' = record
             /\ hist' = hist
             /\ ret' = [ret EXCEPT ![p] = Failure("errUpdate")]
             /\ pc' = [pc EXCEPT ![p] = "done"]
             /\ Unlock(p)
    /\ UNCHANGED <<pending, cacheLock, call, ev, calls>>

\* onSuccess(): g.PendingAllocatedClaims.Remove(claimUID); return
AllocateOnSuccess(p) ==
    /\ At(p, "Allocate", "onsuccess")
    /\ cacheLock = NoProc
    /\ pending' = Remove(Claim(p))
    /\ hist' = [hist EXCEPT ![p].removes = @ \cup {Claim(p)}]
    /\ ret' = [ret EXCEPT ![p] = buildAllocationResult(Node(p), TRUE)]
    /\ pc' = [pc EXCEPT ![p] = "done"]
    /\ Unlock(p)
    /\ UNCHANGED <<record, cacheLock, call, crd, ev, calls>>

\* the handler has returned: the goroutine is free for the next call
Return(p) ==
    /\ pc[p] = "done"
    /\ ~Crashed
    /\ pc' = [pc EXCEPT ![p] = "idle"]
    /\ call' = [call EXCEPT ![p] = IdleCall]
    /\ crd' = [crd EXCEPT ![p] = IdleCrd]
    /\ ev' = [ev EXCEPT ![p] = IdleEv]
    /\ ret' = [ret EXCEPT ![p] = NoResult]
    /\ hist' = [hist EXCEPT ![p] = IdleHist]
    /\ UNCHANGED <<record, pending, nodeLock, cacheLock, calls>>

\* ---- driver.Deallocate (Release) ----
StartDeallocate(p, selectedNode, claim) ==
    /\ Idle(p)
    /\ calls' = calls + 1
    /\ call' = [call EXCEPT ![p] = [IdleCall EXCEPT !.op = "Deallocate", !.node = selectedNode, !.claim = claim]]
    /\ IF selectedNode = NoNode
       THEN /\ ret' = [ret EXCEPT ![p] = Success]
            /\ pc' = [pc EXCEPT ![p] = "done"]
       ELSE /\ ret' = ret
            /\ pc' = [pc EXCEPT ![p] = "lock"]
    /\ UNCHANGED <<record, pending, nodeLock, cacheLock, crd, ev, hist>>

\* driver.Deallocate without d.lock.Get(selectedNode).Lock() (line 168)
DeallocateGetNoLock(p) ==
    /\ At(p, "Deallocate", "lock")
    /\ hist' = [hist EXCEPT ![p] = Locked(@, Node(p))]
    /\ \E ok \in BOOLEAN :
        IF ~ok
        THEN /\ ret' = [ret EXCEPT ![p] = Failure("errGet")]
             /\ pc' = [pc EXCEPT ![p] = "done"]
             /\ crd' = crd
        ELSE /\ crd' = [crd EXCEPT ![p] = record[Node(p)]]
             /\ IF Claim(p) \notin DOMAIN record[Node(p)].allocatedClaims
                THEN /\ ret' = [ret EXCEPT ![p] = Success]
                     /\ pc' = [pc EXCEPT ![p] = "done"]
                ELSE IF record[Node(p)].allocatedClaims[Claim(p)] = EmptyAllocatedDevices
                THEN /\ ret' = [ret EXCEPT ![p] = Failure("errType")]
                     /\ pc' = [pc EXCEPT ![p] = "done"]
                ELSE /\ ret' = ret
                     /\ pc' = [pc EXCEPT ![p] = "remove"]
    /\ UNCHANGED <<record, pending, nodeLock, cacheLock, call, ev, calls>>

\* Lock, client.Get, the check that the claim is allocated, devices.Type()
DeallocateGet(p) ==
    /\ At(p, "Deallocate", "lock")
    /\ nodeLock[Node(p)] = NoProc
    /\ hist' = [hist EXCEPT ![p] = Locked(@, Node(p))]
    /\ \E ok \in BOOLEAN :
        IF ~ok
        THEN /\ ret' = [ret EXCEPT ![p] = Failure("errGet")]
             /\ pc' = [pc EXCEPT ![p] = "done"]
             /\ UNCHANGED <<crd, nodeLock>>
        ELSE /\ crd' = [crd EXCEPT ![p] = record[Node(p)]]
             /\ IF Claim(p) \notin DOMAIN record[Node(p)].allocatedClaims
                THEN /\ ret' = [ret EXCEPT ![p] = Success]
                     /\ pc' = [pc EXCEPT ![p] = "done"]
                     /\ nodeLock' = nodeLock
                ELSE IF record[Node(p)].allocatedClaims[Claim(p)] = EmptyAllocatedDevices
                THEN /\ ret' = [ret EXCEPT ![p] = Failure("errType")]
                     /\ pc' = [pc EXCEPT ![p] = "done"]
                     /\ nodeLock' = nodeLock
                ELSE /\ ret' = ret
                     /\ pc' = [pc EXCEPT ![p] = "remove"]
                     /\ Lock(p)
    /\ UNCHANGED <<record, pending, cacheLock, call, ev, calls>>

\* gpudriver.Deallocate (Remove), delete(crd.Spec.AllocatedClaims, claimUID),
\* client.Update, return
DeallocateUpdate(p) ==
    /\ At(p, "Deallocate", "remove")
    /\ cacheLock = NoProc
    /\ pending' = Remove(Claim(p))
    /\ crd' = [crd EXCEPT ![p].allocatedClaims = MapDelete(@, Claim(p))]
    /\ \E ok \in BOOLEAN :
        IF ok
        THEN /\ ClientUpdate(Node(p), crd'[p])
             /\ hist' = [hist EXCEPT ![p].removes = @ \cup {Claim(p)}, ![p].writes = @ + 1]
             /\ ret' = [ret EXCEPT ![p] = Success]
        ELSE /\ record' = record
             /\ hist' = [hist EXCEPT ![p].removes = @ \cup {Claim(p)}]
             /\ ret' = [ret EXCEPT ![p] = Failure("errUpdate")]
    /\ pc' = [pc EXCEPT ![p] = "done"]
    /\ Unlock(p)
    /\ UNCHANGED <<cacheLock, call, ev, calls>>

\* ---- driver.UnsuitableNodes / unsuitableNode / gpudriver.UnsuitableNode (Evaluate) ----
\* for _, ca := range allcas { ca.UnsuitableNodes = append(ca.UnsuitableNodes, potentialNode) }
MarkUnsuitable(unsuitable, potentialNode) ==
    [c \in DOMAIN unsuitable |-> Append(unsuitable[c], potentialNode)]

StartUnsuitableNodes(p, cas, potentialNodes) ==
    /\ Idle(p)
    /\ calls + Len(potentialNodes) <= MaxCalls
    /\ calls' = calls + Len(potentialNodes)
    /\ call' = [call EXCEPT ![p] = [IdleCall EXCEPT !.op = "UnsuitableNodes", !.cas = cas,
                                                    !.nodes = potentialNodes,
                                                    !.node = Head(potentialNodes)]]
    /\ ev' = [ev EXCEPT ![p].unsuitable = [c \in Range(cas) |-> <<>>], ![p].pos = 1]
    /\ pc' = [pc EXCEPT ![p] = "lock"]
    /\ UNCHANGED <<record, pending, nodeLock, cacheLock, crd, ret, hist>>

\* unsuitableNode returns (deferred Unlock); the loop of UnsuitableNodes goes on
\* with the next node, or applies unique to every list and returns
NextNode(p, unsuitable) ==
    IF ev[p].pos < Len(call[p].nodes)
    THEN /\ call' = [call EXCEPT ![p].node = call[p].nodes[ev[p].pos + 1]]
         /\ ev' = [ev EXCEPT ![p] = [IdleEv EXCEPT !.unsuitable = unsuitable, !.pos = ev[p].pos + 1]]
         /\ pc' = [pc EXCEPT ![p] = "lock"]
         /\ ret' = ret
    ELSE /\ call' = call
         /\ ev' = [ev EXCEPT ![p] = [IdleEv EXCEPT !.pos = ev[p].pos, !.unsuitable =
                        [c \in DOMAIN unsuitable |-> unique(unsuitable[c])]]]
         /\ ret' = [ret EXCEPT ![p] = Success]
         /\ pc' = [pc EXCEPT ![p] = "done"]

\* unsuitableNode without the status check (lines 246-251)
UnsuitableNodeGetIgnoresStatus(p) ==
    /\ At(p, "UnsuitableNodes", "lock")
    /\ nodeLock[Node(p)] = NoProc
    /\ \E ok \in BOOLEAN :
        IF ~ok
        THEN /\ NextNode(p, MarkUnsuitable(ev[p].unsuitable, Node(p)))
             /\ hist' = [hist EXCEPT ![p] = [Locked(@, Node(p)) EXCEPT !.skipped = @ \cup {Node(p)}]]
             /\ UNCHANGED <<crd, nodeLock>>
        ELSE /\ crd' = [crd EXCEPT ![p] = record[Node(p)]]
             /\ hist' = [hist EXCEPT ![p] = Locked(@, Node(p))]
             /\ pc' = [pc EXCEPT ![p] = "visit"]
             /\ Lock(p)
             /\ UNCHANGED <<call, ev, ret>>
    /\ UNCHANGED <<record, pending, cacheLock, calls>>

\* Lock, client.Get and the status check of unsuitableNode
UnsuitableNodeGet(p) ==
    /\ At(p, "UnsuitableNodes", "lock")
    /\ nodeLock[Node(p)] = NoProc
    /\ \E ok \in BOOLEAN :
        IF ~ok \/ record[Node(p)].status # StatusReady
        THEN /\ NextNode(p, MarkUnsuitable(ev[p].unsuitable, Node(p)))
             /\ hist' = [hist EXCEPT ![p] = [Locked(@, Node(p)) EXCEPT !.skipped = @ \cup {Node(p)}]]
             /\ UNCHANGED <<crd, nodeLock>>
        ELSE /\ crd' = [crd EXCEPT ![p] = record[Node(p)]]
             /\ hist' = [hist EXCEPT ![p] = Locked(@, Node(p))]
             /\ pc' = [pc EXCEPT ![p] = "visit"]
             /\ Lock(p)
             /\ UNCHANGED <<call, ev, ret>>
    /\ UNCHANGED <<record, pending, cacheLock, calls>>

\* the entries of the node whose claim the fetched object already holds: the
\* visitor calls Remove for them
StaleEntries(p) == {c \in NodeEntries(Node(p)) : c \in DOMAIN crd[p].allocatedClaims}

\* the visitor's else branch, for every entry of the node
Fold(allocatedClaims, node) ==
    [c \in (DOMAIN allocatedClaims) \cup NodeEntries(node) |->
        IF c \in DOMAIN allocatedClaims THEN allocatedClaims[c] ELSE pending[<<c, node>>]]

\* UnsuitableNode folding the entries of the node into the stored object: the
\* working copy is written back with client.Update after the visit
UnsuitableNodeVisitWritesFold(p) ==
    /\ At(p, "UnsuitableNodes", "visit")
    /\ cacheLock = NoProc
    /\ IF StaleEntries(p) # {}
       THEN /\ cacheLock' = p
            /\ pc' = [pc EXCEPT ![p] = "visit_remove"]
            /\ UNCHANGED <<record, crd, hist, ev, ret>>
       ELSE /\ cacheLock' = cacheLock
            /\ crd' = [crd EXCEPT ![p].allocatedClaims = Fold(@, Node(p))]
            /\ ClientUpdate(Node(p), crd'[p])
            /\ IF allocatePanics(crd'[p], call[p].cas)
               THEN /\ pc' = [pc EXCEPT ![p] = "panic"]
                    /\ ret' = [ret EXCEPT ![p] = Failure("panic")]
                    /\ hist' = [hist EXCEPT ![p].reconciled = @ \cup {Node(p)}]
                    /\ ev' = ev
               ELSE /\ \E allocated \in allocate(crd'[p], call[p].cas) :
                         ev' = [ev EXCEPT ![p].allocated = allocated, ![p].idx = 1]
                    /\ hist' = [hist EXCEPT ![p].reconciled = @ \cup {Node(p)},
                                            ![p].allocRan = @ \cup {Node(p)}]
                    /\ pc' = [pc EXCEPT ![p] = "stage"]
                    /\ ret' = ret
    /\ UNCHANGED <<pending, nodeLock, call, calls>>

\* g.PendingAllocatedClaims.VisitNode(potentialNode, visitor): the cache calls the
\* visitor while it holds its internal lock, and the visitor's Remove needs that
\* lock. Then allocated := g.allocate(crd, pod, gpucas, allcas, potentialNode)
UnsuitableNodeVisit(p) ==
    /\ At(p, "UnsuitableNodes", "visit")
    /\ cacheLock = NoProc
    /\ IF StaleEntries(p) # {}
       THEN /\ cacheLock' = p
            /\ pc' = [pc EXCEPT ![p] = "visit_remove"]
            /\ UNCHANGED <<crd, hist, ev, ret>>
       ELSE /\ cacheLock' = cacheLock
            /\ crd' = [crd EXCEPT ![p].allocatedClaims = Fold(@, Node(p))]
            /\ IF allocatePanics(crd'[p], call[p].cas)
               THEN /\ pc' = [pc EXCEPT ![p] = "panic"]
                    /\ ret' = [ret EXCEPT ![p] = Failure("panic")]
                    /\ hist' = [hist EXCEPT ![p].reconciled = @ \cup {Node(p)}]
                    /\ ev' = ev
               ELSE /\ \E allocated \in allocate(crd'[p], call[p].cas) :
                         ev' = [ev EXCEPT ![p].allocated = allocated, ![p].idx = 1]
                    /\ hist' = [hist EXCEPT ![p].reconciled = @ \cup {Node(p)},
                                            ![p].allocRan = @ \cup {Node(p)}]
                    /\ pc' = [pc EXCEPT ![p] = "stage"]
                    /\ ret' = ret
    /\ UNCHANGED <<record, pending, nodeLock, call, calls>>

\* the loop over gpucas writing the entry of (claimUID, potentialNode) without
\* giving up the entries the claim has on other nodes
UnsuitableNodeStageKeepsOtherNodes(p) ==
    /\ At(p, "UnsuitableNodes", "stage")
    /\ LET claimUID == call[p].cas[ev[p].idx] IN
       IF Count(claimUID) # Len(ev[p].allocated[claimUID])
       THEN /\ NextNode(p, MarkUnsuitable(ev[p].unsuitable, Node(p)))
            /\ hist' = [hist EXCEPT ![p].shortfall = @ \cup {Node(p)}]
            /\ pending' = pending
            /\ Unlock(p)
       ELSE /\ cacheLock = NoProc
            /\ pending' = MapPut(pending, <<claimUID, Node(p)>>, ev[p].allocated[claimUID])
            /\ hist' = [hist EXCEPT ![p].sets = @ \cup {<<claimUID, Node(p)>>}]
            /\ IF ev[p].idx = Len(call[p].cas)
               THEN /\ NextNode(p, ev[p].unsuitable)
                    /\ Unlock(p)
               ELSE /\ ev' = [ev EXCEPT ![p].idx = @ + 1]
                    /\ UNCHANGED <<call, pc, ret, nodeLock>>
    /\ UNCHANGED <<record, cacheLock, crd, calls>>

\* one iteration of the loop over gpucas: the count check, then Set; the
\* iteration that ends the loop returns
UnsuitableNodeStage(p) ==
    /\ At(p, "UnsuitableNodes", "stage")
    /\ LET claimUID == call[p].cas[ev[p].idx] IN
       IF Count(claimUID) # Len(ev[p].allocated[claimUID])
       THEN /\ NextNode(p, MarkUnsuitable(ev[p].unsuitable, Node(p)))
            /\ hist' = [hist EXCEPT ![p].shortfall = @ \cup {Node(p)}]
            /\ pending' = pending
            /\ Unlock(p)
       ELSE /\ cacheLock = NoProc
            /\ pending' = Set(claimUID, Node(p), ev[p].allocated[claimUID])
            /\ hist' = [hist EXCEPT ![p].sets = @ \cup {<<claimUID, Node(p)>>}]
            /\ IF ev[p].idx = Len(call[p].cas)
               THEN /\ NextNode(p, ev[p].unsuitable)
                    /\ Unlock(p)
               ELSE /\ ev' = [ev EXCEPT ![p].idx = @ + 1]
                    /\ UNCHANGED <<call, pc, ret, nodeLock>>
    /\ UNCHANGED <<record, cacheLock, crd, calls>>

\* ---- the program ----
Next ==
    \E p \in Procs :
        \/ \E n \in Nodes \cup {NoNode}, c \in Claims : StartAllocate(p, n, c)
        \/ AllocateGet(p)
        \/ AllocateExists(p)
        \/ AllocateUpdate(p)
        \/ AllocateOnSuccess(p)
        \/ \E n \in Nodes \cup {NoNode}, c \in Claims : StartDeallocate(p, n, c)
        \/ DeallocateGet(p)
        \/ DeallocateUpdate(p)
        \/ \E cas \in Lists(Claims), nodes \in Lists(Nodes) : StartUnsuitableNodes(p, cas, nodes)
        \/ UnsuitableNodeGet(p)
        \/ UnsuitableNodeVisit(p)
        \/ UnsuitableNodeStage(p)
        \/ Return(p)

Spec == Init /\ [][Next]_vars

\* ---- what the properties below speak about ----
\* p is between Lock and the deferred Unlock of its node
InCriticalSection(p) ==
    pc[p] \in {"exists", "pget", "onsuccess", "remove", "visit", "visit_remove", "stage"}

\* the steps an invocation can take once it has started
Step(p) ==
    \/ AllocateGet(p)
    \/ AllocateExists(p)
    \/ AllocateUpdate(p)
    \/ AllocateOnSuccess(p)
    \/ DeallocateGet(p)
    \/ DeallocateUpdate(p)
    \/ UnsuitableNodeGet(p)
    \/ UnsuitableNodeVisit(p)
    \/ UnsuitableNodeStage(p)

\* the history of a call counts every write of the store and every change of the
\* cache: a call whose history shows none has changed neither
HistoryIsFaithful ==
    [][/\ record' # record => \E p \in Procs : hist'[p].writes = hist[p].writes + 1
       /\ pending' # pending => \E p \in Procs : \/ hist'[p].sets # hist[p].sets
                                                \/ hist'[p].removes # hist[p].removes]_vars

NoCacheOps(p) == hist[p].sets = {} /\ hist[p].removes = {}

\* C1: no double-booking. In every reachable state, for every node the device
\* lists of the claims in the stored object's allocatedClaims are pairwise
\* disjoint and each lies within the node's allocatableDevices.
C1_NoDoubleBooking ==
    \A n \in Nodes :
        LET claims == record[n].allocatedClaims IN
        /\ \A c \in DOMAIN claims : Range(claims[c]) \subseteq record[n].allocatableDevices
        /\ \A c, d \in DOMAIN claims : c # d => Range(claims[c]) \cap Range(claims[d]) = {}

\* two claims hold devices of one node, the second allocated by a call of this run
C1_TwoClaimsOnNode ==
    \E n \in Nodes, p \in Procs :
        /\ Cardinality(DOMAIN record[n].allocatedClaims) = 2
        /\ \A c \in DOMAIN record[n].allocatedClaims : record[n].allocatedClaims[c] # <<>>
        /\ call[p].op = "Allocate" /\ Node(p) = n /\ pc[p] = "onsuccess"

\* C2: shortfall atomicity. A node that UnsuitableNodes gives up at the count
\* check has, from this call, no cache entry it did not have when the call took
\* the node's mutex, wherever the claim that fell short stands in the batch, and
\* the node is in the unsuitable list of every claim of the batch.
C2_ShortfallAtomicity ==
    \A p \in Procs : call[p].op = "UnsuitableNodes" =>
        \A n \in hist[p].shortfall :
            /\ \A c \in Claims : <<c, n>> \in hist[p].sets => <<c, n>> \in hist[p].pre
            /\ \A c \in Range(call[p].cas) : n \in Range(ev[p].unsuitable[c])

\* C3: Release clears staging unconditionally. Whenever Deallocate returns nil,
\* the cache holds no entry of the claim on any node.
C3_ReleaseClearsStaging ==
    [][\A p \in Procs :
        (pc[p] # "done" /\ pc'[p] = "done" /\ call'[p].op = "Deallocate" /\ ret'[p] = Success)
            => \A n \in Nodes : <<call'[p].claim, n>> \notin DOMAIN pending']_vars

\* C4: Commit idempotence. An allocate call whose fetch finds the claim already in
\* the node's allocatedClaims writes nothing, makes no change to the cache and
\* returns the success result of a first Commit, buildAllocationResult(node, true),
\* whether or not the cache holds an entry of the claim.
C4_RepeatedCommit ==
    \A p \in Procs : (call[p].op = "Allocate" /\ pc[p] = "done") =>
        /\ hist[p].found =>
              /\ ret[p] = buildAllocationResult(Node(p), TRUE)
              /\ hist[p].writes = 0
              /\ NoCacheOps(p)
        /\ ret[p].err = "nil" => ret[p] = buildAllocationResult(Node(p), TRUE)

C4_CommitIdempotent == []C4_RepeatedCommit /\ HistoryIsFaithful

\* a repeated Commit has returned while the cache holds an entry of its claim
C4_RepeatWithStagingEntry ==
    \E p \in Procs :
        /\ call[p].op = "Allocate" /\ pc[p] = "done"
        /\ hist[p].found
        /\ Exists(Claim(p), Node(p))

\* C5: Commit removes the staging entry exactly when the write succeeded. A write
\* that succeeds stores, under the claim, the assignment staged for (claim, node),
\* and the call then leaves no entry of the claim in the cache; a write that
\* fails returns the error, leaves the stored object and the cache as they were,
\* with the entry of (claim, node) still there for a retry.
C5_CommitConsumesStaging ==
    [][\A p \in Procs :
        /\ (At(p, "Allocate", "pget") /\ pc'[p] = "onsuccess") =>
              /\ hist[p].staged # EmptyAllocatedDevices
              /\ record'[Node(p)].allocatedClaims[Claim(p)] = hist[p].staged
        /\ (At(p, "Allocate", "onsuccess") /\ pc'[p] = "done") =>
              /\ ret'[p].err = "nil"
              /\ \A n \in Nodes : <<Claim(p), n>> \notin DOMAIN pending'
        /\ (At(p, "Allocate", "pget") /\ pc'[p] = "done") =>
              /\ ret'[p] = Failure("errUpdate")
              /\ record' = record
              /\ pending' = pending
              /\ Exists(Claim(p), Node(p))
              /\ pending[<<Claim(p), Node(p)>>] = hist[p].staged]_vars

\* C6: Commit fails without side effects before the write. Without a selected
\* node it fails before it takes any mutex; with a fetch failure, a status other
\* than Ready, or neither a cache entry of (claim, node) nor the claim in the
\* fetched object it returns an error; none of these calls writes the store or
\* changes the cache.
C6_FailedCommit ==
    \A p \in Procs : (call[p].op = "Allocate" /\ pc[p] = "done") =>
        /\ Node(p) = NoNode => (ret[p] = Failure("errNoNode") /\ ~hist[p].locked)
        /\ (Node(p) # NoNode /\ record[Node(p)].status # StatusReady) =>
              ret[p].err \in {"errGet", "errNotReady"}
        /\ ret[p].err = "nil" => (hist[p].found \/ hist[p].staged # EmptyAllocatedDevices)
        /\ ret[p].err = "errNoPending" => (~hist[p].found /\ hist[p].staged = EmptyAllocatedDevices)
        /\ ret[p].err \in {"errNoNode", "errGet", "errNotReady", "errNoPending"} =>
              (hist[p].writes = 0 /\ NoCacheOps(p))

C6_CommitFailsCleanly == []C6_FailedCommit /\ HistoryIsFaithful

\* Commit has failed for want of a cache entry on its node while the cache holds
\* the claim on another node
C6_MissingStagingEntry ==
    \E p \in Procs :
        /\ call[p].op = "Allocate" /\ pc[p] = "done"
        /\ ret[p] = Failure("errNoPending")
        /\ \E n \in Nodes : Exists(Claim(p), n)

\* C7: UnsuitableNodes on a node whose object cannot be fetched or is not Ready
\* puts the node in the unsuitable list of every claim of the batch, returns nil,
\* runs neither VisitNode nor g.allocate for the node and makes no cache entry
\* on it.
C7_UnreadyNode ==
    \A p \in Procs : call[p].op = "UnsuitableNodes" =>
        /\ \A n \in hist[p].skipped :
              /\ n \notin hist[p].reconciled
              /\ n \notin hist[p].allocRan
              /\ \A c \in Claims : <<c, n>> \notin hist[p].sets
              /\ \A c \in Range(call[p].cas) : n \in Range(ev[p].unsuitable[c])
        /\ \A n \in Nodes : record[n].status # StatusReady =>
              (n \notin hist[p].reconciled /\ n \notin hist[p].allocRan)
        /\ hist[p].reconciled = {} => NoCacheOps(p)
        /\ pc[p] = "done" =>
              /\ ret[p] = Success
              /\ \A n \in Range(call[p].nodes) :
                    record[n].status # StatusReady => n \in hist[p].skipped

C7_EvaluateSkipsUnreadyNode == []C7_UnreadyNode /\ HistoryIsFaithful

\* a pass over two nodes has returned: one node was given up at the fetch or the
\* status check, the other was evaluated, and the cache is not empty
C7_PassWithUnreadyNode ==
    \E p \in Procs :
        /\ call[p].op = "UnsuitableNodes" /\ pc[p] = "done"
        /\ hist[p].skipped # {}
        /\ hist[p].reconciled # {}
        /\ pending # EmptyMap

\* C8: per-node mutual exclusion. At most one invocation is between Lock and
\* Unlock of a node, it is the holder of the node's mutex, and the object it
\* works on is the stored one: what it fetched is still what the store holds
\* (until it writes it itself), so no write is derived from a stale fetch.
C8_MutualExclusion ==
    \A n \in Nodes :
        LET inside == {p \in Procs : InCriticalSection(p) /\ Node(p) = n} IN
        /\ Cardinality(inside) <= 1
        /\ \A p \in inside :
              /\ nodeLock[n] = p
              /\ IF pc[p] = "stage"
                 THEN \A c \in DOMAIN record[n].allocatedClaims :
                          /\ c \in DOMAIN crd[p].allocatedClaims
                          /\ crd[p].allocatedClaims[c] = record[n].allocatedClaims[c]
                 ELSE crd[p] = record[n]

\* one invocation has written the node's object and still holds the mutex,
\* another waits for the same mutex
C8_WriterAndWaiter ==
    \E p, q \in Procs :
        /\ p # q
        /\ pc[p] = "onsuccess"
        /\ pc[q] = "lock" /\ Node(q) = Node(p)

\* C9: lock release and progress. An invocation that has returned holds no node
\* mutex, and an invocation inside a critical section can always take its next
\* step unless another invocation holds the cache's lock: it never waits for a
\* lock it holds itself, VisitNode's visitor included.
C9_LockReleasedAndProgress ==
    \A p \in Procs :
        /\ pc[p] \in {"idle", "done"} => \A n \in Nodes : nodeLock[n] # p
        /\ (InCriticalSection(p) /\ ~Crashed) =>
              (ENABLED Step(p) \/ (cacheLock # NoProc /\ cacheLock # p))

\* C10: committed is stable until Release. A claim in a node's allocatedClaims
\* keeps its place and its device list in every step that is not the write of a
\* Deallocate of that claim on that node.
C10_CommittedStable ==
    [][\A n \in Nodes, c \in Claims :
        (/\ c \in DOMAIN record[n].allocatedClaims
         /\ \/ c \notin DOMAIN record'[n].allocatedClaims
            \/ record'[n].allocatedClaims[c] # record[n].allocatedClaims[c])
        => \E p \in Procs : At(p, "Deallocate", "remove") /\ Claim(p) = c /\ Node(p) = n]_vars

\* a Commit has written the object of a node that holds another claim as well,
\* and has returned
C10_CommitBesideOtherClaim ==
    \E n \in Nodes, p \in Procs :
        /\ call[p].op = "Allocate" /\ pc[p] = "done" /\ Node(p) = n
        /\ hist[p].writes = 1
        /\ \E c \in DOMAIN record[n].allocatedClaims : c # Claim(p)

\* ---- round trips ----
\* q has returned from UnsuitableNodes for the one claim c on the one node n,
\* found the node suitable and staged the claim there; nothing was staged on the
\* node before and the claim was not allocated on it. crd[q] is still the object
\* that call worked on.
EvaluatedAlone(q, c, n) ==
    /\ call[q].op = "UnsuitableNodes" /\ pc[q] = "done"
    /\ call[q].cas = <<c>> /\ call[q].nodes = <<n>>
    /\ hist[q].sets = {<<c, n>>}
    /\ hist[q].pre = {}
    /\ c \notin DOMAIN crd[q].allocatedClaims

\* C11: lifecycle round trip. After UnsuitableNodes has staged claim c on the
\* Ready node n, an allocate of c on n that finds the node's object as that call
\* left it and whose write succeeds stores the object with c added, bound to
\* Count(c) distinct free devices of the node, and leaves no cache entry of c; a
\* Deallocate of c on n whose write succeeds then stores the object as it was
\* before the UnsuitableNodes call and leaves no cache entry of c.
\* Whatever runs on other nodes meanwhile, the list allocate stores under c is
\* the one that was staged for (c, n), of length Count(c).
C11_LifecycleRoundTrip ==
    [][/\ \A p \in Procs :
            (At(p, "Allocate", "pget") /\ pc'[p] = "onsuccess") =>
                /\ Len(hist[p].staged) = Count(Claim(p))
                /\ record'[Node(p)].allocatedClaims =
                       MapPut(record[Node(p)].allocatedClaims, Claim(p), hist[p].staged)
       /\ \A p, q \in Procs, c \in Claims, n \in Nodes :
        (EvaluatedAlone(q, c, n) /\ Claim(p) = c /\ Node(p) = n) =>
          LET before == crd[q].allocatedClaims
              after == record'[n].allocatedClaims
          IN
          /\ (/\ At(p, "Allocate", "pget") /\ pc'[p] = "onsuccess"
              /\ record[n].allocatedClaims = before) =>
                /\ DOMAIN after = DOMAIN before \cup {c}
                /\ \A d \in DOMAIN before : after[d] = before[d]
                /\ Len(after[c]) = Count(c)
                /\ Cardinality(Range(after[c])) = Count(c)
                /\ Range(after[c]) \subseteq Inventory(n) \ AllocatedUUIDs(before)
          /\ (/\ At(p, "Allocate", "onsuccess") /\ pc'[p] = "done") =>
                \A m \in Nodes : <<c, m>> \notin DOMAIN pending'
          /\ (/\ At(p, "Deallocate", "remove") /\ ret'[p] = Success
              /\ DOMAIN record[n].allocatedClaims = DOMAIN before \cup {c}) =>
                /\ after = before
                /\ \A m \in Nodes : <<c, m>> \notin DOMAIN pending']_vars

\* the round trip has been made: the Deallocate that ends it has written
C11_RoundTripMade ==
    \E p, q \in Procs, c \in Claims, n \in Nodes :
        /\ EvaluatedAlone(q, c, n)
        /\ call[p].op = "Deallocate" /\ Claim(p) = c /\ Node(p) = n
        /\ pc[p] = "done" /\ hist[p].writes = 1
        /\ record[n].allocatedClaims = crd[q].allocatedClaims

\* ---- the device allocator ----
\* p is in the loop of gpudriver.UnsuitableNode: ev[p].allocated is what
\* g.allocate returned for the batch call[p].cas and the object crd[p]
AllocatorReturned(p) == call[p].op = "UnsuitableNodes" /\ pc[p] = "stage"

\* the claims of the batch without an assignment in the object
NewClaims(p) == {c \in Range(call[p].cas) : c \notin DOMAIN crd[p].allocatedClaims}

\* the free pool: the inventory without the devices of every assignment of the object
FreePool(p) == crd[p].allocatableDevices \ AllocatedUUIDs(crd[p].allocatedClaims)

\* the devices left in the pool when the loop reaches position i of the batch
LeftAt(p, i) ==
    FreePool(p) \ UNION {Range(ev[p].allocated[call[p].cas[j]]) :
                            j \in {k \in 1..(i - 1) : call[p].cas[k] \in NewClaims(p)}}

Min(a, b) == IF a < b THEN a ELSE b

\* C12: allocator result for new claims. Each claim of the batch without an
\* assignment gets a list of distinct devices, as long as the smaller of its
\* count and the number of devices left in the pool when the loop reaches it,
\* all of them from what is left then; no device is in the lists of two claims
\* of the batch or in the assignment of another claim.
C12_AllocatorNewClaims ==
    \A p \in Procs : AllocatorReturned(p) =>
        LET cas == call[p].cas
            allocated == ev[p].allocated
        IN
        /\ DOMAIN allocated = Range(cas)
        /\ \A i \in DOMAIN cas : cas[i] \in NewClaims(p) =>
              LET devices == allocated[cas[i]] IN
              /\ Len(devices) = Min(Count(cas[i]), Cardinality(LeftAt(p, i)))
              /\ Cardinality(Range(devices)) = Len(devices)
              /\ Range(devices) \subseteq LeftAt(p, i)
              /\ Range(devices) \subseteq FreePool(p)
              /\ \A d \in DOMAIN crd[p].allocatedClaims :
                    Range(devices) \cap Range(crd[p].allocatedClaims[d]) = {}
        /\ \A c, d \in Range(cas) :
              (c # d /\ (c \in NewClaims(p) \/ d \in NewClaims(p))) =>
                  Range(allocated[c]) \cap Range(allocated[d]) = {}

\* the allocator has served a batch of two new claims: the first got all it
\* asked for, the second what was left, fewer than it asked for
C12_SecondClaimFallsShort ==
    \E p \in Procs :
        /\ AllocatorReturned(p)
        /\ Len(call[p].cas) = 2
        /\ NewClaims(p) = Range(call[p].cas)
        /\ Len(ev[p].allocated[call[p].cas[1]]) = Count(call[p].cas[1])
        /\ Len(ev[p].allocated[call[p].cas[2]]) < Count(call[p].cas[2])
        /\ ev[p].allocated[call[p].cas[2]] # <<>>

\* the batch without the claims that have an assignment in the object
NewOnly(p) == SelectSeq(call[p].cas, LAMBDA c : c \in NewClaims(p))

StagedOn(c) == {n \in Nodes : Exists(c, n)}

\* C14: staging supersession. The cache never holds a claim on two nodes, and
\* the Set of UnsuitableNode for (claim, node) leaves the claim with one entry,
\* on that node and with the devices just allocated, whatever node held it
\* before: Exists is false for every other node afterwards.
C14_OneEntryPerClaim == \A c \in Claims : Cardinality(StagedOn(c)) <= 1

Holds(n) ==
    {<<c, pending[<<c, n>>]>> : c \in NodeEntries(n)}
        \cup {<<c, record[n].allocatedClaims[c]>> : c \in DOMAIN record[n].allocatedClaims}

\* C15: reconcile keeps pending holds exclusive. On every node the device lists
\* staged on it and allocated in its stored object are pairwise disjoint where
\* they belong to different claims.
C15_HoldsExclusive ==
    \A n \in Nodes : \A x, y \in Holds(n) : x[1] # y[1] => Range(x[2]) \cap Range(y[2]) = {}

\* C15, with the reconcile step: VisitNode of UnsuitableNode on a node removes
\* from the cache every entry of the node whose claim is in the fetched object,
\* puts every other entry of the node into the working copy's AllocatedClaims
\* and leaves it in the cache, so that g.allocate gives no new claim a device of
\* them.
C15_ReconcileExclusive ==
    /\ []C15_HoldsExclusive
    /\ [][\A p \in Procs :
            (At(p, "UnsuitableNodes", "visit") /\ pc'[p] # "visit") =>
              LET n == Node(p)
                  stale == StaleEntries(p)
                  kept == NodeEntries(n) \ stale
              IN
              /\ \A c \in stale : <<c, n>> \notin DOMAIN pending'
              /\ \A c \in kept :
                    /\ <<c, n>> \in DOMAIN pending'
                    /\ c \in DOMAIN crd'[p].allocatedClaims
                    /\ crd'[p].allocatedClaims[c] = pending[<<c, n>>]
              /\ \A c \in DOMAIN crd[p].allocatedClaims :
                    /\ c \in DOMAIN crd'[p].allocatedClaims
                    /\ crd'[p].allocatedClaims[c] = crd[p].allocatedClaims[c]
              /\ pc'[p] = "stage" =>
                    \A c \in Range(call[p].cas) \ DOMAIN crd'[p].allocatedClaims :
                        Range(ev'[p].allocated[c]) \cap AllocatedUUIDs(crd'[p].allocatedClaims) = {}]_vars

\* C16: Commit reads the staging entry atomically. Whatever runs under other
\* nodes' mutexes between the Exists and the Get of gpudriver.Allocate, an
\* allocate that has written the object has stored under its claim the list the
\* cache held for (claim, node) when Exists looked, never the empty
\* AllocatedDevices that Get returns for an entry that has gone.
C16_CommitReadsAtomically ==
    \A p \in Procs : (call[p].op = "Allocate" /\ pc[p] = "onsuccess") =>
        /\ Claim(p) \in DOMAIN record[Node(p)].allocatedClaims
        /\ record[Node(p)].allocatedClaims[Claim(p)] # EmptyAllocatedDevices
        /\ record[Node(p)].allocatedClaims[Claim(p)] = hist[p].staged

\* ---- the durable store ----
\* the step is one of invocation p
StepOf(p) == pc'[p] # pc[p] \/ ev'[p] # ev[p] \/ crd'[p] # crd[p] \/ hist'[p] # hist[p]

\* C17: Evaluate never changes durable state. No step of an UnsuitableNodes
\* invocation changes the stored object of any node, on any of its paths (fetch
\* failure, NotReady, shortfall, success): the visitor folds cache entries into
\* the invocation's working copy only, and the invocation never writes.
C17_EvaluateLeavesStore ==
    [][\A p \in Procs :
        (call[p].op = "UnsuitableNodes" /\ StepOf(p)) =>
            /\ record' = record
            /\ hist'[p].writes = 0]_vars

\* a pass has returned after it folded a cache entry into its working copy,
\* which now differs from the stored object, and after it staged a claim
C17_FoldedAndStaged ==
    \E p \in Procs :
        /\ call[p].op = "UnsuitableNodes" /\ pc[p] = "done"
        /\ hist[p].pre # {}
        /\ hist[p].sets # {}
        /\ crd[p].allocatedClaims # record[Node(p)].allocatedClaims

\* ---- from the filter pass to Commit ----
\* q has returned from one UnsuitableNodes pass over several nodes, and the pass
\* did not put node n in the unsuitable list of its claim c
FoundSuitable(q, c, n) ==
    /\ call[q].op = "UnsuitableNodes" /\ pc[q] = "done"
    /\ Len(call[q].nodes) >= 2
    /\ c \in Range(call[q].cas)
    /\ n \in Range(call[q].nodes)
    /\ n \notin Range(ev[q].unsuitable[c])

\* C18: filter-to-commit bridge. When a pass over several nodes has returned and
\* an allocate of one of its claims on a node the pass found suitable then takes
\* the node's mutex, with nothing else running, the cache holds the entry of
\* (claim, node) that gpudriver.Allocate asks for: the Commit does not fail with
\* the missing-staging error because a later node of the pass was suitable too.
C18_FilterToCommit ==
    [][\A p, q \in Procs, c \in Claims, n \in Nodes :
        (/\ FoundSuitable(q, c, n)
         /\ \A r \in Procs \ {p, q} : pc[r] = "idle"
         /\ At(p, "Allocate", "lock") /\ Claim(p) = c /\ Node(p) = n
         /\ pc'[p] = "exists")
        => Exists(c, n)]_vars

\* C19: full fulfilment only. Every entry of the cache and every assignment in a
\* stored object holds exactly Count(claim) devices, and at least one: nothing
\* under-fulfilled or empty is staged or committed.
C19_FullFulfilmentOnly ==
    /\ \A k \in DOMAIN pending :
          /\ Count(k[1]) >= 1
          /\ Len(pending[k]) = Count(k[1])
    /\ \A n \in Nodes : \A c \in DOMAIN record[n].allocatedClaims :
          /\ Count(c) >= 1
          /\ Len(record[n].allocatedClaims[c]) = Count(c)

\* the staged half of C19 on its own
C19_StagedInFull == \A k \in DOMAIN pending : Len(pending[k]) = Count(k[1])

\* the nodes whose stored object holds claim c in its allocatedClaims
CommittedOn(c) == {n \in Nodes : c \in DOMAIN record[n].allocatedClaims}

\* C20: single commitment per claim. In every reachable state a claim is in the
\* allocatedClaims of at most one node's stored object: UnsuitableNodes and
\* allocate for a claim that is allocated on one node do not allocate it on
\* another.
C20_SingleCommitment == \A c \in Claims : Cardinality(CommittedOn(c)) <= 1

====
